---- MODULE Spec2Model ----
(***************************************************************************)
(* IPTV-Stream-Checker (src/main.py): the locator parser parse_udp_url,    *)
(* the stream probe check_udp_stream and the check cycle check_channels.   *)
(*                                                                         *)
(* Text is a sequence of one-character strings, so that prefix tests,      *)
(* partitioning at a delimiter, case folding and decimal conversion are    *)
(* computed as the code computes them.                                     *)
(***************************************************************************)
EXTENDS Integers, Sequences, FiniteSets, TLC

(***************************************************************************)
(* Bounds of the model.                                                    *)
(***************************************************************************)
MaxStreams == 2
MaxAttempts == 2

\* intervals the scheduler is followed through
MaxTicks == 3

(***************************************************************************)
(* Characters and text helpers (str methods used by urllib.parse and by    *)
(* check_udp_stream).                                                      *)
(***************************************************************************)
Digits == <<"0", "1", "2", "3", "4", "5", "6", "7", "8", "9">>

UpperChars == <<"A", "B", "C", "D", "E", "F", "G", "H", "I", "J", "K", "L", "M",
                "N", "O", "P", "Q", "R", "S", "T", "U", "V", "W", "X", "Y", "Z">>

LowerChars == <<"a", "b", "c", "d", "e", "f", "g", "h", "i", "j", "k", "l", "m",
                "n", "o", "p", "q", "r", "s", "t", "u", "v", "w", "x", "y", "z">>

Range(s) == {s[i] : i \in 1..Len(s)}

IsDigit(c) == c \in Range(Digits)

DigitVal(c) == (CHOOSE i \in 1..Len(Digits) : Digits[i] = c) - 1

IsAlpha(c) == c \in Range(UpperChars) \cup Range(LowerChars)

\* str.lower() on one character
Lower(c) ==
    IF c \in Range(UpperChars)
    THEN LowerChars[CHOOSE i \in 1..Len(UpperChars) : UpperChars[i] = c]
    ELSE c

LowerStr(s) == [i \in 1..Len(s) |-> Lower(s[i])]

\* str.find: the first position (from 1) of a character of cs, 0 when absent
Find(s, cs) ==
    IF \E i \in 1..Len(s) : s[i] \in cs
    THEN CHOOSE i \in 1..Len(s) : s[i] \in cs /\ \A j \in 1..(i - 1) : s[j] \notin cs
    ELSE 0

\* str.rfind: the last position of c, 0 when absent
RFind(s, c) ==
    IF \E i \in 1..Len(s) : s[i] = c
    THEN CHOOSE i \in 1..Len(s) : s[i] = c /\ \A j \in (i + 1)..Len(s) : s[j] # c
    ELSE 0

Before(s, i) == SubSeq(s, 1, i - 1)

After(s, i) == SubSeq(s, i + 1, Len(s))

\* str.partition(c): <<head, found, tail>>
Partition(s, c) ==
    LET i == Find(s, {c})
    IN  IF i = 0 THEN <<s, FALSE, <<>>>> ELSE <<Before(s, i), TRUE, After(s, i)>>

\* str.rpartition(c)[2]
AfterLast(s, c) == LET i == RFind(s, c) IN IF i = 0 THEN s ELSE After(s, i)

\* str.startswith
StartsWith(s, p) == Len(s) >= Len(p) /\ SubSeq(s, 1, Len(p)) = p

\* str.lstrip of the blank
RECURSIVE LStrip(_)
LStrip(s) == IF s # <<>> /\ s[1] = " " THEN LStrip(Tail(s)) ELSE s

\* int(s) of a non-empty sequence of decimal digits
RECURSIVE IntOf(_)
IntOf(s) ==
    IF s = <<>> THEN 0 ELSE 10 * IntOf(Before(s, Len(s))) + DigitVal(s[Len(s)])

\* Python's None and a present value; a raised exception
None == [none |-> TRUE]

Some(v) == [none |-> FALSE, v |-> v]

Raised == [raised |-> TRUE]

(***************************************************************************)
(* urllib.parse.urlparse, as far as parse_udp_url reads its result: the    *)
(* scheme, and the hostname and port properties of the network location.   *)
(***************************************************************************)
SchemeChars == Range(UpperChars) \cup Range(LowerChars) \cup Range(Digits) \cup {"+", "-", "."}

HexChars == Range(Digits) \cup {"a", "b", "c", "d", "e", "f", "A", "B", "C", "D", "E", "F"}

\* _splitnetloc(url, 2): the text between the leading // and the first of / ? #
splitnetloc(url) ==
    LET body  == SubSeq(url, 3, Len(url))
        delim == Find(body, {"/", "?", "#"})
    IN  IF delim = 0 THEN body ELSE Before(body, delim)

\* _check_bracketed_host: a bracketed host must be an IPv6 literal
\* (here: hexadecimal groups with at least two colons)
check_bracketed_host(h) ==
    /\ h # <<>>
    /\ \A i \in 1..Len(h) : h[i] \in HexChars \cup {":"}
    /\ Cardinality({i \in 1..Len(h) : h[i] = ":"}) >= 2

\* urlsplit: [raised |-> TRUE] for its ValueError, else the scheme and netloc
urlparse(udp_url) ==
    LET url       == LStrip(udp_url)
        i         == Find(url, {":"})
        hasScheme == /\ i > 1
                     /\ IsAlpha(url[1])
                     /\ \A k \in 1..(i - 1) : url[k] \in SchemeChars
        scheme    == IF hasScheme THEN LowerStr(Before(url, i)) ELSE <<>>
        rest      == IF hasScheme THEN After(url, i) ELSE url
        hasNetloc == Len(rest) >= 2 /\ rest[1] = "/" /\ rest[2] = "/"
        netloc    == IF hasNetloc THEN splitnetloc(rest) ELSE <<>>
        open      == "[" \in Range(netloc)
        close     == "]" \in Range(netloc)
        bracketed == Partition(Partition(netloc, "[")[3], "]")[1]
    IN  IF open # close THEN Raised
        ELSE IF open /\ close /\ ~check_bracketed_host(bracketed) THEN Raised
        ELSE [raised |-> FALSE, scheme |-> scheme, netloc |-> netloc]

\* SplitResult._hostinfo: <<hostname, port text>>
hostinfo(netloc) ==
    LET hi == AfterLast(netloc, "@")
        br == Partition(hi, "[")
    IN  IF br[2]
        THEN LET inner == Partition(br[3], "]")
             IN  <<inner[1], Partition(inner[3], ":")[3]>>
        ELSE LET hp == Partition(hi, ":") IN <<hp[1], hp[3]>>

\* SplitResult.hostname: None when empty, else lower-cased up to a % zone
hostname(netloc) ==
    LET h == hostinfo(netloc)[1]
        z == Partition(h, "%")
    IN  IF h = <<>> THEN None
        ELSE Some(LowerStr(z[1]) \o (IF z[2] THEN <<"%">> ELSE <<>>) \o z[3])

\* SplitResult.port: None when empty, ValueError unless decimal and in 0..65535
port_of(netloc) ==
    LET p == hostinfo(netloc)[2]
    IN  IF p = <<>> THEN None
        ELSE IF ~(\A i \in 1..Len(p) : IsDigit(p[i])) THEN Raised
        ELSE IF ~(0 <= IntOf(p) /\ IntOf(p) <= 65535) THEN Raised
        ELSE Some(IntOf(p))

(***************************************************************************)
(* parse_udp_url (src/main.py 49-62).  Every exception is caught and       *)
(* turned into (None, None).                                               *)
(***************************************************************************)
NoneNone == [host |-> None, port |-> None]

\* "not host": None or the empty text
FalsyHost(h) == h.none \/ h.v = <<>>

\* "not port": None or 0
FalsyPort(p) == p.none \/ p.v = 0

UDP == <<"u", "d", "p">>

\* line 57: "if not host or not port"
MissingHostOrPort_none_only(h, p) == h.none \/ p.none

MissingHostOrPort(h, p) == FalsyHost(h) \/ FalsyPort(p)

\* lines 52-59, the try block: the pair (host, port), or an exception
parse_try(udp_url) ==
    LET parsed == urlparse(udp_url)
    IN  IF parsed.raised THEN Raised
        ELSE IF parsed.scheme # UDP THEN Raised
        ELSE LET h == hostname(parsed.netloc)
                 p == port_of(parsed.netloc)
             IN  IF p = Raised THEN Raised
                 ELSE IF MissingHostOrPort(h, p) THEN Raised
                 ELSE [host |-> h, port |-> p]

\* lines 60-62: except Exception -> return None, None
parse_udp_url_uncaught(udp_url) == parse_try(udp_url)

parse_udp_url(udp_url) ==
    LET r == parse_try(udp_url) IN IF r = Raised THEN NoneNone ELSE r

(***************************************************************************)
(* Locators.  A locator is built from a scheme, the separator after it, an *)
(* optional source-filter marker, a host, a port part and a path; the      *)
(* parser sees only the resulting text.                                    *)
(***************************************************************************)
SchemeTexts == {<<>>, UDP, <<"U", "D", "P">>, <<"h", "t", "t", "p">>, <<"r", "t", "p">>}

SepTexts == {<<":", "/", "/">>, <<":">>, <<>>}

MarkerTexts == {<<>>, <<"@">>}

HostMulticast == <<"2", "3", "9", ".", "1", ".", "1", ".", "1">>

HostUnicast == <<"1", "0", ".", "0", ".", "0", ".", "1">>

HostUnicast2xx == <<"2", "0", "0", ".", "1", ".", "1", ".", "1">>

HostNamed224 == <<"2", "2", "4", ".", "T", "v">>

HostTexts == {<<>>, HostMulticast, HostUnicast, HostUnicast2xx, HostNamed224,
              <<"[", ":", ":", "1", "]">>, <<"[", ":", ":", "1">>, <<"[", "t", "v", "]">>}

PortTexts == {<<>>, <<":">>, <<":", "0">>, <<":", "0", "0">>, <<":", "7">>,
              <<":", "5", "0", "0", "0">>, <<":", "6", "5", "5", "3", "5">>,
              <<":", "6", "5", "5", "3", "6">>, <<":", "5", "x">>, <<":", "-", "1">>,
              <<":", "5", ":", "6">>}

PathTexts == {<<>>, <<"/", "x">>}

LocatorParts == [scheme : SchemeTexts, sep : SepTexts, marker : MarkerTexts,
                 host : HostTexts, port : PortTexts, path : PathTexts]

\* the locator's text
Render(l) == l.scheme \o l.sep \o l.marker \o l.host \o l.port \o l.path

Plain(scheme, host, port) ==
    [scheme |-> scheme, sep |-> <<":", "/", "/">>, marker |-> <<>>,
     host |-> host, port |-> port, path |-> <<>>]

Port5000 == <<":", "5", "0", "0", "0">>

UrlMulticast == Render(Plain(UDP, HostMulticast, Port5000))

UrlUnicast == Render(Plain(UDP, HostUnicast, Port5000))

UrlUnicast2xx == Render(Plain(UDP, HostUnicast2xx, <<":", "7">>))

UrlNamed224 == Render(Plain(UDP, HostNamed224, Port5000))

UrlInvalid == <<"n", "o", "t", "-", "a", "-", "u", "r", "l">>

\* the stream locators a configured batch is drawn from
StreamUrls == {UrlMulticast, UrlUnicast, UrlUnicast2xx, UrlNamed224, UrlInvalid}

(***************************************************************************)
(* Configuration (src/main.py 13-34).  config.ini holds the Telegram keys  *)
(* and, under [Streams], the value of udp_streams: locators separated by   *)
(* commas.                                                                 *)
(***************************************************************************)
RECURSIVE RStrip(_)
RStrip(s) == IF s # <<>> /\ s[Len(s)] = " " THEN RStrip(SubSeq(s, 1, Len(s) - 1)) ELSE s

\* str.strip()
strip(s) == RStrip(LStrip(s))

\* str.split(","): a text without a comma, the empty one too, is one part
RECURSIVE split(_)
split(s) ==
    LET i == Find(s, {","})
    IN  IF i = 0 THEN <<s>> ELSE <<Before(s, i)>> \o split(After(s, i))

Stripped(parts) == [k \in 1..Len(parts) |-> strip(parts[k])]

\* line 28: the list comprehension over the value's parts
load_streams(text) == Stripped(split(text))

\* line 29: "if not udp_streams"
NoStreams(l) == l = <<>>

\* the locators of a list, separated by ", "
RECURSIVE Joined(_)
Joined(b) ==
    IF Len(b) = 0 THEN <<>>
    ELSE IF Len(b) = 1 THEN b[1]
    ELSE b[1] \o <<",", " ">> \o Joined(Tail(b))

\* the locators the configured lists are drawn from
ConfiguredUrls == {UrlMulticast, UrlUnicast2xx, UrlInvalid}

\* values of udp_streams: lists of distinct locators, a list with a comma
\* after its last locator, and the empty value
StreamsTexts ==
    {Joined(b) : b \in {c \in UNION {[1..n -> ConfiguredUrls] : n \in 1..MaxStreams} :
                            \A i, j \in 1..Len(c) : c[i] = c[j] => i = j}}
        \cup {UrlMulticast \o <<",">>, <<>>}

\* config.ini: with every key, without the Telegram keys, without udp_streams
ConfigFiles ==
    {[telegram |-> TRUE, streams |-> Some(t)] : t \in StreamsTexts}
        \cup {[telegram |-> FALSE, streams |-> Some(UrlMulticast)],
              [telegram |-> TRUE, streams |-> None]}

\* the file of a run that is given its list directly
NoConfig == [telegram |-> TRUE, streams |-> None]

(***************************************************************************)
(* State.                                                                  *)
(*   udp_urls, retry_attempts, require_data   arguments of check_channels  *)
(*   pc, idx, attempt, host, port, results, down_streams   its locals and  *)
(*                        position; results is the dict in insertion order *)
(*   ppc, sock, retval    check_udp_stream's position, its sock variable   *)
(*                        and the value it is about to return              *)
(*   failure              the exception raised in the probe invocation     *)
(*   received             the datagrams the probe invocation received, each *)
(*                        with the seconds its recvfrom waited for it      *)
(*   open_sockets         sockets the process holds open                   *)
(*   calls                socket calls of the probe invocation under way   *)
(*   probes, delays, errors, active_at, parsed, valid                      *)
(*                        what the cycle did per stream                    *)
(*   sent                 invocations of send_telegram_message             *)
(*   p_pc, p_loc, p_result   one application of parse_udp_url              *)
(*   config               what config.ini holds: the Telegram keys and the *)
(*                        value of udp_streams                             *)
(*   udp_streams          the module's list of stream locators (line 28)   *)
(*   main_pc              the main thread's position                       *)
(*   ticks, launched, skipped, running   the scheduler: intervals elapsed, *)
(*                        runs of scheduled_task started and skipped, and  *)
(*                        runs under way                                   *)
(*   prev_sent            the alerts of the run before this one            *)
(***************************************************************************)
VARIABLES udp_urls, retry_attempts, require_data,
          pc, idx, attempt, host, port, results, down_streams,
          ppc, sock, retval, failure, received, open_sockets, calls,
          probes, delays, errors, active_at, parsed, valid, sent,
          p_pc, p_loc, p_result,
          config, udp_streams, main_pc, ticks, launched, skipped, running, prev_sent

argVars == <<udp_urls, retry_attempts, require_data>>

cycleVars == <<pc, idx, attempt, host, port, results, down_streams>>

probeVars == <<ppc, sock, retval, failure, received, open_sockets, calls>>

histVars == <<probes, delays, errors, active_at, parsed, valid, sent>>

parseVars == <<p_pc, p_loc, p_result>>

schedVars == <<config, udp_streams, main_pc, ticks, launched, skipped, running, prev_sent>>

vars == <<argVars, cycleVars, probeVars, histVars, parseVars, schedVars>>

\* lists of pairwise distinct stream locators (a stream's name is its locator)
Batches ==
    {b \in UNION {[1..n -> StreamUrls] : n \in 0..MaxStreams} :
        \A i, j \in 1..Len(b) : b[i] = b[j] => i = j}

Init ==
    /\ udp_urls \in Batches
    /\ retry_attempts \in 0..MaxAttempts
    /\ require_data \in BOOLEAN
    /\ pc = "call"
    /\ idx = 0
    /\ attempt = 0
    /\ host = None
    /\ port = None
    /\ results = <<>>
    /\ down_streams = <<>>
    /\ ppc = "none"
    /\ sock = "None"
    /\ retval = "NoReturn"
    /\ failure = "none"
    /\ received = <<>>
    /\ open_sockets = 0
    /\ calls = <<>>
    /\ probes = [i \in 1..Len(udp_urls) |-> 0]
    /\ delays = [i \in 1..Len(udp_urls) |-> 0]
    /\ errors = [i \in 1..Len(udp_urls) |-> 0]
    /\ active_at = [i \in 1..Len(udp_urls) |-> 0]
    /\ parsed = {}
    /\ valid = {}
    /\ sent = <<>>
    /\ p_pc = "unused"
    /\ p_loc = Plain(<<>>, <<>>, <<>>)
    /\ p_result = NoneNone
    /\ config = NoConfig
    /\ udp_streams = <<>>
    /\ main_pc = "unused"
    /\ ticks = 0
    /\ launched = 0
    /\ skipped = 0
    /\ running = 0
    /\ prev_sent = <<>>

(***************************************************************************)
(* check_udp_stream (src/main.py 64-165).  The first try statement (66-109)*)
(* returns on every path but one: an empty datagram with require_data      *)
(* leaves it without a return, and control runs on into the second try     *)
(* statement (112-165).                                                    *)
(***************************************************************************)
SocketOutcomes == {"ok", "error"}

RecvOutcomes == {"data", "empty", "timeout", "error"}

\* lines 71-76: the sixteen prefixes "224." .. "239."
MulticastPrefixes ==
    {<<"2", "2", d, ".">> : d \in {"4", "5", "6", "7", "8", "9"}}
        \cup {<<"2", "3", d, ".">> : d \in Range(Digits)}

is_multicast(h) == \E p \in MulticastPrefixes : StartsWith(h, p)

\* line 117
legacy_is_multicast(h) == StartsWith(h, <<"2">>)

\* str.split(".")
RECURSIVE SplitDots(_)
SplitDots(s) ==
    LET i == Find(s, {"."})
    IN  IF i = 0 THEN <<s>> ELSE <<Before(s, i)>> \o SplitDots(After(s, i))

\* socket.inet_aton on dotted-decimal text of four parts: the four octets,
\* or OSError
inet_aton(h) ==
    LET parts == SplitDots(h)
    IN  IF /\ Len(parts) = 4
           /\ \A i \in 1..4 :
                /\ parts[i] # <<>>
                /\ Len(parts[i]) <= 3
                /\ \A k \in 1..Len(parts[i]) : IsDigit(parts[i][k])
                /\ IntOf(parts[i]) <= 255
        THEN Some([i \in 1..4 |-> IntOf(parts[i])])
        ELSE Raised

\* lines 103-105: except Exception -> return False
OuterExcept(exc) == "False"

\* lines 96-98: except socket.timeout -> return False; anything else goes on
\* to the outer handler
InnerExcept_timeout_only(exc) == IF exc = "timeout" THEN "False" ELSE "Raise"

InnerExcept(exc) == IF exc = "timeout" THEN "False" ELSE OuterExcept(exc)

\* lines 153-161: socket.timeout, socket.error, Exception -> return False
LegacyExcept(exc) == "False"

\* lines 107-108 and 163-164: "if sock: sock.close()"
FinallyCloses_never(s) == FALSE

FinallyCloses(s) == s # "None"

\* on to the next statement
Proceed(where) ==
    /\ ppc' = where
    /\ UNCHANGED <<retval, failure>>

\* a return statement: to the finally clause with the value to return
ToFinally(where, value) ==
    /\ ppc' = where
    /\ retval' = value
    /\ UNCHANGED failure

\* an exception exc, handled with the value to return (or raised further)
Except(where, value, exc) ==
    /\ ppc' = where
    /\ retval' = value
    /\ failure' = exc

\* what recvfrom can hand back: a datagram with data in it, or an empty one
Datagrams == {"data", "empty"}

\* line 204: timeout=10, the seconds a recvfrom waits before socket.timeout
timeout == 10

\* the seconds after which a recvfrom hands back a datagram: soon, or late
\* within the socket's timeout
WaitTimes == {1, timeout - 1}

\* lines 93-95: "if data: return True", and no return otherwise
OnDatagram_any(r) == "True"

OnDatagram(r) == IF r = "data" THEN "True" ELSE "NoReturn"

\* lines 143-147: "if data: return True / else: return False"
LegacyOnDatagram(r) == IF r = "data" THEN "True" ELSE "False"

\* line 89: "if require_data"
WaitsForData_always(rd) == TRUE

WaitsForData(rd) == rd

\* after bind (and join): lines 89-101
AfterSetup ==
    IF WaitsForData(require_data)
    THEN Proceed("recv")
    ELSE ToFinally("finally", "True")

\* line 68-69: socket(), settimeout()
P_socket ==
    /\ ppc = "socket"
    /\ \E r \in SocketOutcomes :
         IF r = "ok"
         THEN /\ sock' = "socket"
              /\ open_sockets' = open_sockets + 1
              /\ calls' = calls \o <<"socket", "settimeout">>
              /\ Proceed("setsockopt")
         ELSE /\ calls' = calls \o <<"socket">>
              /\ Except("finally", OuterExcept("error"), "error")
              /\ UNCHANGED <<sock, open_sockets>>
    /\ UNCHANGED received
    /\ UNCHANGED <<argVars, cycleVars, histVars, parseVars, schedVars>>

\* line 80: setsockopt(SO_REUSEADDR)
P_setsockopt ==
    /\ ppc = "setsockopt"
    /\ calls' = calls \o <<"setsockopt">>
    /\ \E r \in SocketOutcomes :
         IF r = "ok"
         THEN Proceed("bind")
         ELSE Except("finally", OuterExcept("error"), "error")
    /\ UNCHANGED <<sock, open_sockets, received>>
    /\ UNCHANGED <<argVars, cycleVars, histVars, parseVars, schedVars>>

\* line 81: bind(('', port)), then line 83
P_bind ==
    /\ ppc = "bind"
    /\ calls' = calls \o <<"bind">>
    /\ \E r \in SocketOutcomes :
         IF r = "ok"
         THEN IF is_multicast(host.v)
              THEN Proceed("join")
              ELSE AfterSetup
         ELSE Except("finally", OuterExcept("error"), "error")
    /\ UNCHANGED <<sock, open_sockets, received>>
    /\ UNCHANGED <<argVars, cycleVars, histVars, parseVars, schedVars>>

\* lines 84-87: inet_aton(host), setsockopt(IP_ADD_MEMBERSHIP)
P_join ==
    /\ ppc = "join"
    /\ IF inet_aton(host.v) = Raised
       THEN /\ calls' = calls \o <<"inet_aton">>
            /\ Except("finally", OuterExcept("error"), "error")
       ELSE /\ calls' = calls \o <<"inet_aton", "join">>
            /\ \E r \in SocketOutcomes :
                 IF r = "ok"
                 THEN AfterSetup
                 ELSE Except("finally", OuterExcept("error"), "error")
    /\ UNCHANGED <<sock, open_sockets, received>>
    /\ UNCHANGED <<argVars, cycleVars, histVars, parseVars, schedVars>>

\* lines 90-98: recvfrom(4096)
P_recv ==
    /\ ppc = "recv"
    /\ calls' = calls \o <<"recvfrom">>
    /\ \E r \in RecvOutcomes :
         IF r \in Datagrams
         THEN /\ \E w \in WaitTimes : received' = Append(received, [kind |-> r, wait |-> w])
              /\ ToFinally("finally", OnDatagram(r))
         ELSE /\ Except("finally", InnerExcept(r), r)
              /\ UNCHANGED received
    /\ UNCHANGED <<sock, open_sockets>>
    /\ UNCHANGED <<argVars, cycleVars, histVars, parseVars, schedVars>>

\* lines 106-109, then the return, or lines 111-112 when nothing was returned
P_finally ==
    /\ ppc = "finally"
    /\ IF FinallyCloses(sock)
       THEN /\ open_sockets' = open_sockets - 1
            /\ calls' = calls \o <<"close">>
       ELSE UNCHANGED <<open_sockets, calls>>
    /\ IF retval = "NoReturn"
       THEN ppc' = "l_socket" /\ sock' = "None"
       ELSE ppc' = "ret" /\ sock' = sock
    /\ UNCHANGED <<retval, failure, received>>
    /\ UNCHANGED <<argVars, cycleVars, histVars, parseVars, schedVars>>

\* after the legacy bind (and join): lines 136-151
LegacyAfterSetup ==
    IF require_data
    THEN Proceed("l_send")
    ELSE ToFinally("l_finally", "True")

\* lines 114-120: socket(), settimeout()
L_socket ==
    /\ ppc = "l_socket"
    /\ \E r \in SocketOutcomes :
         IF r = "ok"
         THEN /\ sock' = "socket"
              /\ open_sockets' = open_sockets + 1
              /\ calls' = calls \o <<"socket", "settimeout">>
              /\ Proceed(IF legacy_is_multicast(host.v) THEN "l_setsockopt" ELSE "l_bind")
         ELSE /\ calls' = calls \o <<"socket">>
              /\ Except("l_finally", LegacyExcept("error"), "error")
              /\ UNCHANGED <<sock, open_sockets>>
    /\ UNCHANGED received
    /\ UNCHANGED <<argVars, cycleVars, histVars, parseVars, schedVars>>

\* line 122: setsockopt(SO_REUSEADDR)
L_setsockopt ==
    /\ ppc = "l_setsockopt"
    /\ calls' = calls \o <<"setsockopt">>
    /\ \E r \in SocketOutcomes :
         IF r = "ok"
         THEN Proceed("l_bind")
         ELSE Except("l_finally", LegacyExcept("error"), "error")
    /\ UNCHANGED <<sock, open_sockets, received>>
    /\ UNCHANGED <<argVars, cycleVars, histVars, parseVars, schedVars>>

\* lines 124 and 133: bind(('', port))
L_bind ==
    /\ ppc = "l_bind"
    /\ calls' = calls \o <<"bind">>
    /\ \E r \in SocketOutcomes :
         IF r = "ok"
         THEN IF legacy_is_multicast(host.v)
              THEN Proceed("l_join")
              ELSE LegacyAfterSetup
         ELSE Except("l_finally", LegacyExcept("error"), "error")
    /\ UNCHANGED <<sock, open_sockets, received>>
    /\ UNCHANGED <<argVars, cycleVars, histVars, parseVars, schedVars>>

\* lines 127-130: inet_aton(host), setsockopt(IP_ADD_MEMBERSHIP)
L_join ==
    /\ ppc = "l_join"
    /\ IF inet_aton(host.v) = Raised
       THEN /\ calls' = calls \o <<"inet_aton">>
            /\ Except("l_finally", LegacyExcept("error"), "error")
       ELSE /\ calls' = calls \o <<"inet_aton", "join">>
            /\ \E r \in SocketOutcomes :
                 IF r = "ok"
                 THEN LegacyAfterSetup
                 ELSE Except("l_finally", LegacyExcept("error"), "error")
    /\ UNCHANGED <<sock, open_sockets, received>>
    /\ UNCHANGED <<argVars, cycleVars, histVars, parseVars, schedVars>>

\* line 138: sendto(b'', (host, port))
L_send ==
    /\ ppc = "l_send"
    /\ calls' = calls \o <<"sendto">>
    /\ \E r \in SocketOutcomes :
         IF r = "ok"
         THEN Proceed("l_recv")
         ELSE Except("l_finally", LegacyExcept("error"), "error")
    /\ UNCHANGED <<sock, open_sockets, received>>
    /\ UNCHANGED <<argVars, cycleVars, histVars, parseVars, schedVars>>

\* lines 140-147: recvfrom(1024)
L_recv ==
    /\ ppc = "l_recv"
    /\ calls' = calls \o <<"recvfrom">>
    /\ \E r \in RecvOutcomes :
         IF r \in Datagrams
         THEN /\ \E w \in WaitTimes : received' = Append(received, [kind |-> r, wait |-> w])
              /\ ToFinally("l_finally", LegacyOnDatagram(r))
         ELSE /\ Except("l_finally", LegacyExcept(r), r)
              /\ UNCHANGED received
    /\ UNCHANGED <<sock, open_sockets>>
    /\ UNCHANGED <<argVars, cycleVars, histVars, parseVars, schedVars>>

\* lines 162-165, then the return
L_finally ==
    /\ ppc = "l_finally"
    /\ IF FinallyCloses(sock)
       THEN /\ open_sockets' = open_sockets - 1
            /\ calls' = calls \o <<"close">>
       ELSE UNCHANGED <<open_sockets, calls>>
    /\ ppc' = "ret"
    /\ UNCHANGED <<sock, retval, failure, received>>
    /\ UNCHANGED <<argVars, cycleVars, histVars, parseVars, schedVars>>

(***************************************************************************)
(* send_telegram_message (src/main.py 36-47): the message is posted; a     *)
(* failed delivery (requests.RequestException) is logged and swallowed.    *)
(***************************************************************************)
DeliveryOutcomes == {"delivered", "failed"}

\* lines 46-47: except requests.RequestException -> logged, nothing raised
SendExcept_reraise(exc) == "Raise"

SendExcept(exc) == "Logged"

\* lines 194-196: the header and one line per down stream
Message(down) == [header |-> "IPTV Stream Alert: the following streams are DOWN", lines |-> down]

(***************************************************************************)
(* check_channels (src/main.py 167-199).                                   *)
(***************************************************************************)
Active == [status |-> "ACTIVE", error |-> "None"]

Inactive == [status |-> "INACTIVE", error |-> "No response or timeout"]

Invalid == [status |-> "INVALID", error |-> "Invalid URL"]

HasKey(d, k) == \E i \in 1..Len(d) : d[i].key = k

\* d[k] = v on a dict: a new key is appended, an old one keeps its place
DictSet(d, k, v) ==
    IF HasKey(d, k)
    THEN [i \in 1..Len(d) |-> IF d[i].key = k THEN [key |-> k, value |-> v] ELSE d[i]]
    ELSE Append(d, [key |-> k, value |-> v])

DictGet(d, k) == d[CHOOSE i \in 1..Len(d) : d[i].key = k].value

Keys(d) == [i \in 1..Len(d) |-> d[i].key]

\* line 183: break on the first active probe
BreakOnActive_missing == FALSE

BreakOnActive == TRUE

\* line 186: another attempt follows this one
RetryRemains_always(a, n) == TRUE

RetryRemains(a, n) == a < n - 1

\* line 174: "if not host or not port"
Unparsed(h, p) == FalsyHost(h) \/ FalsyPort(p)

\* line 177: continue with the next url
ContinueOnInvalid_missing == FALSE

ContinueOnInvalid == TRUE

\* line 170: "down_streams = []", whatever an earlier call left
InitialDown_kept(old) == old

InitialDown(old) == <<>>

\* lines 169-170
Enter ==
    /\ pc = "call"
    /\ results' = <<>>
    /\ down_streams' = InitialDown(down_streams)
    /\ idx' = 1
    /\ pc' = "loop"
    /\ UNCHANGED <<attempt, host, port>>
    /\ UNCHANGED <<argVars, probeVars, histVars, parseVars, schedVars>>

\* lines 174-179, with hp the pair parse_udp_url returned for url
Parsed(url, hp) ==
    IF hp = Raised
    THEN /\ pc' = "raised"
         /\ UNCHANGED <<idx, attempt, host, port, results, down_streams, parsed, valid>>
    ELSE /\ host' = hp.host
         /\ port' = hp.port
         /\ parsed' = parsed \cup {idx}
         /\ valid' = IF Unparsed(hp.host, hp.port) THEN valid ELSE valid \cup {idx}
         /\ attempt' = 0
         /\ IF Unparsed(hp.host, hp.port)
            THEN /\ results' = DictSet(results, url, Invalid)
                 /\ down_streams' = Append(down_streams, <<url, "Invalid URL">>)
            ELSE UNCHANGED <<results, down_streams>>
         /\ IF Unparsed(hp.host, hp.port) /\ ContinueOnInvalid
            THEN idx' = idx + 1 /\ pc' = "loop"
            ELSE IF 0 < retry_attempts
                 THEN idx' = idx /\ pc' = "attempt"
                 ELSE idx' = idx + 1 /\ pc' = "loop"

\* lines 172-179: the next url is parsed; an invalid one is recorded and
\* skipped, a valid one enters the retry loop (which range(retry_attempts)
\* may leave empty)
NextStream ==
    /\ pc = "loop"
    /\ idx <= Len(udp_urls)
    /\ Parsed(udp_urls[idx], parse_udp_url(udp_urls[idx]))
    /\ UNCHANGED <<probes, delays, errors, active_at, sent>>
    /\ UNCHANGED <<argVars, probeVars, parseVars, schedVars>>

\* lines 180-181: the call of check_udp_stream; line 66
CallProbe ==
    /\ pc = "attempt"
    /\ pc' = "probing"
    /\ ppc' = "socket"
    /\ sock' = "None"
    /\ retval' = "NoReturn"
    /\ failure' = "none"
    /\ received' = <<>>
    /\ calls' = <<>>
    /\ probes' = [probes EXCEPT ![idx] = @ + 1]
    /\ UNCHANGED <<idx, attempt, host, port, results, down_streams, open_sockets>>
    /\ UNCHANGED <<delays, errors, active_at, parsed, valid, sent>>
    /\ UNCHANGED <<argVars, parseVars, schedVars>>

\* line 179: range(retry_attempts) has a value after a
MoreAttempts_one_more(a, n) == a < n

MoreAttempts(a, n) == a + 1 < n

\* the for loop of line 179 moves on after attempt a
NextAttempt(a) ==
    IF MoreAttempts(a, retry_attempts)
    THEN attempt' = a + 1 /\ idx' = idx /\ pc' = "attempt"
    ELSE attempt' = a /\ idx' = idx + 1 /\ pc' = "loop"

\* lines 181-190: what the probe returned decides the stream's entry
AttemptResult ==
    /\ pc = "probing"
    /\ ppc = "ret"
    /\ ppc' = "none"
    /\ LET url == udp_urls[idx]
       IN  CASE retval = "Raise" ->
                  /\ pc' = "raised"
                  /\ UNCHANGED <<idx, attempt, results, down_streams, active_at>>
             [] retval = "True" ->
                  /\ results' = DictSet(results, url, Active)
                  /\ active_at' = [active_at EXCEPT ![idx] = IF @ = 0 THEN probes[idx] ELSE @]
                  /\ UNCHANGED down_streams
                  /\ IF BreakOnActive
                     THEN attempt' = attempt /\ idx' = idx + 1 /\ pc' = "loop"
                     ELSE NextAttempt(attempt)
             [] OTHER ->
                  /\ results' = DictSet(results, url, Inactive)
                  /\ UNCHANGED active_at
                  /\ IF RetryRemains(attempt, retry_attempts)
                     THEN /\ pc' = "sleep"
                          /\ UNCHANGED <<idx, attempt, down_streams>>
                     ELSE /\ down_streams' = Append(down_streams, <<url, "No response or timeout">>)
                          /\ NextAttempt(attempt)
    /\ errors' = [errors EXCEPT ![idx] = IF failure = "error" THEN @ + 1 ELSE @]
    /\ received' = <<>>
    /\ UNCHANGED <<host, port, sock, retval, failure, open_sockets, calls>>
    /\ UNCHANGED <<probes, delays, parsed, valid, sent>>
    /\ UNCHANGED <<argVars, parseVars, schedVars>>

\* line 188: time.sleep(retry_delay), then the next attempt
Sleep ==
    /\ pc = "sleep"
    /\ delays' = [delays EXCEPT ![idx] = @ + 1]
    /\ NextAttempt(attempt)
    /\ UNCHANGED <<host, port, results, down_streams>>
    /\ UNCHANGED <<probes, errors, active_at, parsed, valid, sent>>
    /\ UNCHANGED <<argVars, probeVars, parseVars, schedVars>>

\* line 172: the for loop has no url left at position i of n
Exhausted_early(i, n) == i >= n

Exhausted(i, n) == i > n

\* line 172: the list is exhausted
EndLoop ==
    /\ pc = "loop"
    /\ Exhausted(idx, Len(udp_urls))
    /\ pc' = "alert"
    /\ UNCHANGED <<idx, attempt, host, port, results, down_streams>>
    /\ UNCHANGED <<argVars, probeVars, histVars, parseVars, schedVars>>

\* line 193: "if down_streams"
AlertNeeded_always(down) == TRUE

AlertNeeded(down) == down # <<>>

\* lines 193-199: the alert, if any stream is down, and the return
Alert ==
    /\ pc = "alert"
    /\ IF AlertNeeded(down_streams)
       THEN \E r \in DeliveryOutcomes :
              /\ sent' = Append(sent, [message |-> Message(down_streams), outcome |-> r])
              /\ pc' = IF r = "failed" /\ SendExcept(r) = "Raise" THEN "raised" ELSE "done"
       ELSE /\ pc' = "done"
            /\ UNCHANGED sent
    /\ UNCHANGED <<idx, attempt, host, port, results, down_streams>>
    /\ UNCHANGED <<probes, delays, errors, active_at, parsed, valid>>
    /\ UNCHANGED <<argVars, probeVars, parseVars, schedVars>>

Next ==
    \/ Enter
    \/ NextStream
    \/ CallProbe
    \/ P_socket
    \/ P_setsockopt
    \/ P_bind
    \/ P_join
    \/ P_recv
    \/ P_finally
    \/ L_socket
    \/ L_setsockopt
    \/ L_bind
    \/ L_join
    \/ L_send
    \/ L_recv
    \/ L_finally
    \/ AttemptResult
    \/ Sleep
    \/ EndLoop
    \/ Alert

Spec == Init /\ [][Next]_vars

(***************************************************************************)
(* parse_udp_url applied to one locator.                                   *)
(***************************************************************************)
InitParse ==
    /\ p_loc \in LocatorParts
    /\ p_pc = "input"
    /\ p_result = NoneNone
    /\ udp_urls = <<>>
    /\ retry_attempts = 0
    /\ require_data = FALSE
    /\ pc = "unused"
    /\ idx = 0
    /\ attempt = 0
    /\ host = None
    /\ port = None
    /\ results = <<>>
    /\ down_streams = <<>>
    /\ ppc = "none"
    /\ sock = "None"
    /\ retval = "NoReturn"
    /\ failure = "none"
    /\ received = <<>>
    /\ open_sockets = 0
    /\ calls = <<>>
    /\ probes = <<>>
    /\ delays = <<>>
    /\ errors = <<>>
    /\ active_at = <<>>
    /\ parsed = {}
    /\ valid = {}
    /\ sent = <<>>
    /\ config = NoConfig
    /\ udp_streams = <<>>
    /\ main_pc = "unused"
    /\ ticks = 0
    /\ launched = 0
    /\ skipped = 0
    /\ running = 0
    /\ prev_sent = <<>>

Parse ==
    /\ p_pc = "input"
    /\ p_result' = parse_udp_url(Render(p_loc))
    /\ p_pc' = "parsed"
    /\ UNCHANGED p_loc
    /\ UNCHANGED <<argVars, cycleVars, probeVars, histVars, schedVars>>

NextParse == Parse

SpecParse == InitParse /\ [][NextParse]_vars

(***************************************************************************)
(* The process (src/main.py 13-34 and 201-233): the configuration is       *)
(* loaded, main registers scheduled_task as an interval job and starts the *)
(* BackgroundScheduler, which from then on runs the job in a worker thread *)
(* each time the interval has elapsed.  An interval job without a          *)
(* next_run_time is first due one interval after the start, and a job that *)
(* is due while max_instances runs of it are under way is skipped.         *)
(***************************************************************************)
\* line 204: retry_attempts=2
ScheduledAttempts == 2

\* line 204: require_data=True
ScheduledRequireData == TRUE

\* line 220: add_job without max_instances
max_instances == 1

\* line 220: the job may be started while n runs of it are under way
InstanceAllowed_always(n) == TRUE

InstanceAllowed(n) == n < max_instances

\* line 220: add_job without next_run_time, so no run is due at the start
FirstRunAtStart_now == TRUE

FirstRunAtStart == FALSE

InitSched ==
    /\ config \in ConfigFiles
    /\ udp_streams = <<>>
    /\ main_pc = "load"
    /\ ticks = 0
    /\ launched = 0
    /\ skipped = 0
    /\ running = 0
    /\ prev_sent = <<>>
    /\ udp_urls = <<>>
    /\ retry_attempts = ScheduledAttempts
    /\ require_data = ScheduledRequireData
    /\ pc = "idle"
    /\ idx = 0
    /\ attempt = 0
    /\ host = None
    /\ port = None
    /\ results = <<>>
    /\ down_streams = <<>>
    /\ ppc = "none"
    /\ sock = "None"
    /\ retval = "NoReturn"
    /\ failure = "none"
    /\ received = <<>>
    /\ open_sockets = 0
    /\ calls = <<>>
    /\ probes = <<>>
    /\ delays = <<>>
    /\ errors = <<>>
    /\ active_at = <<>>
    /\ parsed = {}
    /\ valid = {}
    /\ sent = <<>>
    /\ p_pc = "unused"
    /\ p_loc = Plain(<<>>, <<>>, <<>>)
    /\ p_result = NoneNone

\* lines 13-34: a missing key ends the process, and so does an empty list
LoadConfig ==
    /\ main_pc = "load"
    /\ IF ~config.telegram \/ config.streams.none
       THEN /\ main_pc' = "exited"
            /\ UNCHANGED udp_streams
       ELSE /\ udp_streams' = load_streams(config.streams.v)
            /\ main_pc' = IF NoStreams(udp_streams') THEN "exited" ELSE "main"
    /\ UNCHANGED <<config, ticks, launched, skipped, running, prev_sent>>
    /\ UNCHANGED <<argVars, cycleVars, probeVars, histVars, parseVars>>

\* lines 201-204: a run of scheduled_task begins and calls check_channels;
\* the position of one run is followed, further runs are counted
Launch ==
    /\ launched' = launched + 1
    /\ running' = running + 1
    /\ IF running = 0
       THEN /\ pc' = "call"
            /\ udp_urls' = udp_streams
            /\ retry_attempts' = ScheduledAttempts
            /\ require_data' = ScheduledRequireData
            /\ probes' = [i \in 1..Len(udp_streams) |-> 0]
            /\ delays' = [i \in 1..Len(udp_streams) |-> 0]
            /\ errors' = [i \in 1..Len(udp_streams) |-> 0]
            /\ active_at' = [i \in 1..Len(udp_streams) |-> 0]
            /\ parsed' = {}
            /\ valid' = {}
            /\ sent' = <<>>
       ELSE UNCHANGED <<pc, argVars, histVars>>
    /\ UNCHANGED <<idx, attempt, host, port, results, down_streams>>
    /\ UNCHANGED <<probeVars, parseVars>>

\* lines 217-220: BackgroundScheduler(), add_job(scheduled_task, 'interval')
AddJob ==
    /\ main_pc = "main"
    /\ main_pc' = "start"
    /\ UNCHANGED <<config, udp_streams, ticks, launched, skipped, running, prev_sent>>
    /\ UNCHANGED <<argVars, cycleVars, probeVars, histVars, parseVars>>

\* lines 223-229: scheduler.start(), then main sleeps in its loop
StartScheduler ==
    /\ main_pc = "start"
    /\ main_pc' = "serving"
    /\ IF FirstRunAtStart
       THEN Launch
       ELSE UNCHANGED <<launched, running, argVars, cycleVars, probeVars, histVars, parseVars>>
    /\ UNCHANGED <<config, udp_streams, ticks, skipped, prev_sent>>

\* the interval has elapsed: the job is run, or skipped when it may not be
Tick ==
    /\ main_pc = "serving"
    /\ ticks < MaxTicks
    /\ ticks' = ticks + 1
    /\ IF InstanceAllowed(running)
       THEN /\ Launch
            /\ UNCHANGED skipped
       ELSE /\ skipped' = skipped + 1
            /\ UNCHANGED <<launched, running, argVars, cycleVars, probeVars, histVars, parseVars>>
    /\ UNCHANGED <<config, udp_streams, main_pc, prev_sent>>

\* lines 206-212: the report is logged and the run ends; a run that ends
\* with an exception ends as well (the executor logs it)
TaskDone ==
    /\ pc \in {"done", "raised"}
    /\ running > 0
    /\ running' = running - 1
    /\ prev_sent' = sent
    /\ pc' = "idle"
    /\ idx' = 0
    /\ attempt' = 0
    /\ host' = None
    /\ port' = None
    /\ ppc' = "none"
    /\ sock' = "None"
    /\ retval' = "NoReturn"
    /\ failure' = "none"
    /\ received' = <<>>
    /\ calls' = <<>>
    /\ UNCHANGED <<results, down_streams, open_sockets, argVars, histVars, parseVars>>
    /\ UNCHANGED <<config, udp_streams, main_pc, ticks, launched, skipped>>

NextSched ==
    \/ LoadConfig
    \/ AddJob
    \/ StartScheduler
    \/ Tick
    \/ TaskDone
    \/ Enter
    \/ NextStream
    \/ CallProbe
    \/ P_socket
    \/ P_setsockopt
    \/ P_bind
    \/ P_join
    \/ P_recv
    \/ P_finally
    \/ L_socket
    \/ L_setsockopt
    \/ L_bind
    \/ L_join
    \/ L_send
    \/ L_recv
    \/ L_finally
    \/ AttemptResult
    \/ Sleep
    \/ EndLoop
    \/ Alert

SpecSched == InitSched /\ [][NextSched]_vars

\* the steps of a cycle whose enabling condition is their first conjunct
\* alone; NextStream, P_join and L_join are the other three
CycleSteps ==
    \/ Enter
    \/ CallProbe
    \/ P_socket
    \/ P_setsockopt
    \/ P_bind
    \/ P_recv
    \/ P_finally
    \/ L_socket
    \/ L_setsockopt
    \/ L_bind
    \/ L_send
    \/ L_recv
    \/ L_finally
    \/ AttemptResult
    \/ Sleep
    \/ EndLoop
    \/ Alert

\* NextStream can be taken: the loop of line 172 has a url left
LoopHasUrl == pc = "loop" /\ idx <= Len(udp_urls)

\* check_channels, a sequential function, when each probe step and each
\* delay returns: a cycle that can take a step takes one.  For NextStream,
\* P_join and L_join weak fairness is written with the enabling condition
\* in the place of ENABLED.
FairSpec ==
    /\ Init
    /\ [][Next]_vars
    /\ WF_vars(CycleSteps)
    /\ ([]<>(~LoopHasUrl) \/ []<><<NextStream>>_vars)
    /\ ([]<>(ppc # "join") \/ []<><<P_join>>_vars)
    /\ ([]<>(ppc # "l_join") \/ []<><<L_join>>_vars)

(***************************************************************************)
(* Properties.                                                             *)
(***************************************************************************)
Streams == 1..Len(udp_urls)

\* the locator of stream i was parsed into a host and a port (line 174)
Valid(i) == i \in valid

\* the cycle is through with stream i
Finished(i) == i \in parsed /\ (idx > i \/ pc \in {"alert", "done"})

Recorded(i) == HasKey(results, udp_urls[i])

StatusOf(i) == DictGet(results, udp_urls[i]).status

IsDown(e) == e.value.status # "ACTIVE"

\* the report's entries that are not ACTIVE, as (name, detail), in report order
DownLines(d) ==
    LET down == SelectSeq(d, IsDown)
    IN  [k \in 1..Len(down) |-> <<down[k].key, down[k].value.error>>]

Occurrences(seq, x) == Cardinality({k \in 1..Len(seq) : seq[k] = x})

\* the host denotes an IPv4 address in 224.0.0.0 - 239.255.255.255
InMulticastRange(h) ==
    LET a == inet_aton(h) IN a # Raised /\ a.v[1] >= 224 /\ a.v[1] <= 239

\* C1: when check_channels returns, for every batch of distinct names and
\* every attempts budget, the report's keys are exactly the input streams,
\* each once, in input order.
C1_OneResultPerStream == pc = "done" => Keys(results) = udp_urls

\* C2: the notifier is invoked exactly once when some stream ends the cycle
\* not ACTIVE and not at all when none does, and never before the cycle's
\* end; the one message lists exactly the streams whose final status is not
\* ACTIVE, each with its detail.
C2_AlertIffDown ==
    /\ Len(sent) <= 1
    /\ pc # "done" => sent = <<>>
    /\ pc = "done" =>
         /\ DownLines(results) # <<>> =>
              Len(sent) = 1 /\ sent[1].message.lines = DownLines(results)
         /\ DownLines(results) = <<>> => sent = <<>>

C2_Witness ==
    /\ pc = "done"
    /\ Len(udp_urls) = 2
    /\ retry_attempts = 2
    /\ StatusOf(1) = "ACTIVE" /\ probes[1] = 1
    /\ StatusOf(2) = "INACTIVE" /\ probes[2] = 2
    /\ Len(sent) = 1
    /\ sent[1].message.lines = <<<<udp_urls[2], "No response or timeout">>>>

\* C3: once a probe attempt of a stream returned Active, the stream's status
\* is ACTIVE, it is not counted as down, and the stream gets no further
\* probe and no further delay: the active probe is its last one.
C3_ActiveStopsRetry ==
    \A i \in Streams :
        active_at[i] > 0 =>
            /\ probes[i] = active_at[i]
            /\ delays[i] = active_at[i] - 1
            /\ Recorded(i) /\ StatusOf(i) = "ACTIVE"
            /\ \A k \in 1..Len(down_streams) : down_streams[k][1] # udp_urls[i]

C3_Witness ==
    /\ pc = "done"
    /\ retry_attempts >= 2
    /\ \E i \in Streams : active_at[i] = 1 /\ probes[i] = 1 /\ delays[i] = 0

\* C4: a delay happens only between two probes of a stream; a stream with a
\* valid locator all of whose attempts failed (attempts >= 1) has had exactly
\* retry_attempts probes and retry_attempts - 1 delays, is recorded INACTIVE
\* with the detail "No response or timeout" and is counted as down once.
C4_ExhaustedRetries ==
    \A i \in Streams :
        /\ delays[i] <= probes[i]
        /\ delays[i] = probes[i] => probes[i] = 0 \/ (idx = i /\ pc = "attempt")
        /\ (retry_attempts >= 1 /\ Finished(i) /\ Valid(i) /\ active_at[i] = 0) =>
              /\ probes[i] = retry_attempts
              /\ delays[i] = retry_attempts - 1
              /\ Recorded(i)
              /\ DictGet(results, udp_urls[i]) = Inactive
              /\ Occurrences(down_streams, <<udp_urls[i], "No response or timeout">>) = 1

C4_Witness ==
    /\ pc = "done"
    /\ retry_attempts = 2
    /\ \E i \in Streams :
         /\ Valid(i) /\ active_at[i] = 0
         /\ probes[i] = 2 /\ delays[i] = 1
         /\ StatusOf(i) = "INACTIVE"

\* C5: a stream whose locator does not parse is recorded INVALID, is never
\* probed or delayed, is in the down list, and is listed in the alert.
C5_InvalidNeverProbed ==
    \A i \in Streams :
        (i \in parsed /\ ~Valid(i)) =>
            /\ probes[i] = 0
            /\ delays[i] = 0
            /\ Recorded(i) /\ StatusOf(i) = "INVALID"
            /\ \E k \in 1..Len(down_streams) : down_streams[k][1] = udp_urls[i]
            /\ pc = "done" =>
                 /\ Len(sent) = 1
                 /\ \E k \in 1..Len(sent[1].message.lines) :
                      sent[1].message.lines[k][1] = udp_urls[i]

C5_Witness ==
    /\ pc = "done"
    /\ Len(udp_urls) = 2
    /\ ~Valid(1) /\ StatusOf(1) = "INVALID" /\ probes[1] = 0
    /\ Valid(2) /\ probes[2] >= 1
    /\ Len(sent) = 1

\* C6: no socket is open once a probe invocation has returned (or has left
\* its first try statement), nor between probes or after the cycle; an
\* invocation never holds two sockets open.
C6_SocketsClosed ==
    /\ open_sockets <= 1
    /\ ppc \in {"none", "ret", "l_socket"} => open_sockets = 0
    /\ pc # "probing" => open_sockets = 0

C6_Witness ==
    /\ ppc = "ret"
    /\ retval = "False"
    /\ failure = "error"
    /\ calls = <<"socket", "settimeout", "setsockopt", "bind", "close">>

\* C7: a probe attempt in which a socket call failed (other than by a
\* timeout) returns False, not True and not an exception; no exception
\* leaves the cycle; and a stream with such a failed attempt is still
\* probed until it is active or the attempts are used up.
C7_SocketErrorIsInactive ==
    /\ pc # "raised"
    /\ (failure = "error" /\ ppc \in {"finally", "l_finally", "ret"}) => retval = "False"
    /\ \A i \in Streams :
         (Finished(i) /\ errors[i] > 0 /\ active_at[i] = 0) => probes[i] = retry_attempts

C7_Witness ==
    /\ pc = "done"
    /\ \E i \in Streams : errors[i] = 1 /\ probes[i] = 2 /\ active_at[i] = 2

\* C8: no failure of a stream ends the cycle: the cycle never stops with an
\* exception, and when it returns every stream of the list has been parsed
\* and (attempts permitting) every valid one probed and given an entry, and
\* every invalid one given an entry.
C8_FailureDoesNotStopBatch ==
    /\ pc # "raised"
    /\ pc = "done" =>
         \A j \in Streams :
            /\ j \in parsed
            /\ (Valid(j) /\ retry_attempts >= 1) => probes[j] >= 1 /\ Recorded(j)
            /\ ~Valid(j) => Recorded(j)

C8_Witness ==
    /\ pc = "done"
    /\ Len(udp_urls) = 2
    /\ Valid(1) /\ errors[1] >= 1 /\ StatusOf(1) = "INACTIVE"
    /\ Valid(2) /\ probes[2] = 1 /\ StatusOf(2) = "ACTIVE"

\* the port parts that are a decimal number in 1..65535
ValidPortTexts == {<<":", "7">>, Port5000, <<":", "6", "5", "5", "3", "5">>}

\* C9: parse_udp_url never raises; it returns (None, None) for every locator
\* whose scheme is not udp, whose host is missing, or whose port is missing,
\* zero or no valid port number; a returned address has a non-empty host and
\* a port in 1..65535.
C9_ParseTotalAndRanged ==
    p_pc = "parsed" =>
        /\ p_result # Raised
        /\ (\/ LowerStr(p_loc.scheme) # UDP
            \/ p_loc.host = <<>>
            \/ p_loc.port \notin ValidPortTexts) => p_result = NoneNone
        /\ p_result # NoneNone =>
              /\ ~p_result.host.none /\ p_result.host.v # <<>>
              /\ ~p_result.port.none /\ p_result.port.v \in 1..65535

C9_Witness ==
    /\ p_pc = "parsed"
    /\ p_loc = Plain(UDP, HostMulticast, <<":", "0">>)
    /\ p_result = NoneNone

\* C10: within a probe invocation a group join is attempted only for a host
\* in 224.0.0.0 - 239.255.255.255, and for such a host the join directly
\* follows the bind and precedes the data wait (or the return, without
\* require_data).
C10_JoinIffMulticast ==
    pc = "probing" =>
        /\ "join" \in Range(calls) => InMulticastRange(host.v)
        /\ (InMulticastRange(host.v) /\ (ppc \in {"recv", "l_send"} \/ retval = "True")) =>
              "join" \in Range(calls)
        /\ (InMulticastRange(host.v) /\ ppc \in {"recv", "l_send"}) =>
              /\ calls[Len(calls)] = "join"
              /\ calls[Len(calls) - 2] = "bind"

\* C11 (as claimed): a run of the batch checker is started at startup, before
\* any interval has elapsed, and one more at every interval: once the
\* scheduler is started the runs started or skipped are one more than the
\* intervals elapsed.
C11_RunsAtStartup == main_pc = "serving" => launched + skipped = ticks + 1

\* C11 (amended): no run of the batch checker is started at startup; the
\* first run starts when the first interval has elapsed, and every interval
\* that elapses starts one run or, while a run is under way, skips one.
C11_FirstRunAfterInterval ==
    /\ launched + skipped = ticks
    /\ main_pc # "serving" => ticks = 0
    /\ ticks = 0 => launched = 0 /\ pc = "idle" /\ sent = <<>>
    /\ ticks >= 1 => launched >= 1

C11_Witness ==
    /\ main_pc = "serving"
    /\ ticks = 2 /\ launched = 2 /\ skipped = 0
    /\ pc = "done"

\* C12: at most one run of the check cycle is under way at any time; an
\* interval that elapses while a run is under way is skipped and starts
\* nothing.
C12_NoOverlappingCycle ==
    /\ running \in {0, 1}
    /\ running = 0 <=> pc = "idle"
    /\ launched <= ticks - skipped

C12_Witness ==
    /\ pc = "probing"
    /\ ppc = "recv"
    /\ running = 1
    /\ launched = 1
    /\ skipped = 2

\* C13: a failed delivery of the alert leaves the report as it was, raises
\* nothing out of check_channels, and the run ends so that the next interval
\* starts a run again.
C13_DeliveryFailureContained ==
    /\ [](pc # "raised")
    /\ [][(pc = "alert" /\ pc' # "alert") => (pc' = "done" /\ results' = results)]_vars
    /\ [][(pc = "idle" /\ ticks' = ticks + 1) => pc' = "call"]_vars

C13_Witness ==
    /\ launched = 2
    /\ pc = "done"
    /\ Len(prev_sent) = 1
    /\ prev_sent[1].outcome = "failed"
    /\ Keys(results) = udp_urls
    /\ Len(sent) = 1

\* C14: in every run after the first, the report holds what this run's
\* probes found and the alert lists exactly the streams down in this run,
\* whatever the run before alerted.
C14_NoDedupAcrossCycles ==
    (pc = "done" /\ launched >= 2) =>
        /\ Keys(results) = udp_urls
        /\ \A i \in Streams :
             StatusOf(i) = IF ~Valid(i) THEN "INVALID"
                           ELSE IF active_at[i] > 0 THEN "ACTIVE" ELSE "INACTIVE"
        /\ DownLines(results) # <<>> =>
             /\ Len(sent) = 1
             /\ sent[1].message = Message(DownLines(results))
        /\ DownLines(results) = <<>> => sent = <<>>

C14_Witness ==
    /\ pc = "done"
    /\ launched >= 2
    /\ Len(prev_sent) = 1
    /\ Len(sent) = 1
    /\ sent[1].message = prev_sent[1].message
    /\ \E i \in Streams : Valid(i) /\ StatusOf(i) = "INACTIVE"

LegacySteps ==
    {"l_socket", "l_setsockopt", "l_bind", "l_join", "l_send", "l_recv", "l_finally"}

\* C15: a probe invocation opens one socket and waits for data at most once;
\* it never opens a second socket, never sends, and never enters the second
\* try statement.
C15_OneSocketOneWait ==
    /\ Occurrences(calls, "socket") <= 1
    /\ Occurrences(calls, "recvfrom") <= 1
    /\ "sendto" \notin Range(calls)
    /\ ppc \notin LegacySteps

\* seconds from the first recvfrom of the invocation to its k-th datagram
RECURSIVE ArrivedAt(_)
ArrivedAt(k) == IF k = 0 THEN 0 ELSE ArrivedAt(k - 1) + received[k].wait

\* C16: a probe invocation returns True or False on every path; with
\* require_data it returns True exactly when a datagram with data was
\* received before the timeout had elapsed, and False when a wait timed out.
C16_ActiveIffDataInTime ==
    ppc = "ret" =>
        /\ retval \in {"True", "False"}
        /\ require_data =>
             /\ retval = "True" <=>
                  \E k \in 1..Len(received) :
                      received[k].kind = "data" /\ ArrivedAt(k) < timeout
             /\ failure = "timeout" => retval = "False"

\* C17: without require_data a probe invocation never receives or sends; it
\* returns True right after the bind (for a multicast host, after the join
\* that follows the bind) when every socket call succeeded, and False when
\* one failed.
C17_BindOnlyWithoutRequireData ==
    (~require_data /\ pc = "probing") =>
        /\ "recvfrom" \notin Range(calls)
        /\ "sendto" \notin Range(calls)
        /\ received = <<>>
        /\ ppc \notin {"recv"} \cup LegacySteps
        /\ ppc = "ret" =>
             /\ retval = "True" <=> failure = "none"
             /\ retval = "False" <=> failure = "error"
             /\ retval = "True" =>
                  calls = IF InMulticastRange(host.v)
                          THEN <<"socket", "settimeout", "setsockopt", "bind",
                                 "inet_aton", "join", "close">>
                          ELSE <<"socket", "settimeout", "setsockopt", "bind", "close">>

C17_Witness ==
    /\ ~require_data
    /\ ppc = "ret"
    /\ retval = "True"
    /\ "join" \in Range(calls)

\* what the cycle's position says about the order of the streams
InInputOrder ==
    /\ \A i \in Streams :
         (i \in parsed \/ probes[i] > 0 \/ delays[i] > 0) =>
            /\ i <= idx
            /\ \A j \in 1..i : j \in parsed
    /\ pc \in {"attempt", "probing", "sleep"} => idx \in valid
    /\ ppc # "none" => pc = "probing"
    /\ pc \in {"alert", "done"} => parsed = Streams /\ idx = Len(udp_urls) + 1
    /\ sent # <<>> => pc = "done"

\* a step probes or delays only the stream the cycle is at, and never goes
\* back to an earlier stream
OnlyCurrentStream ==
    /\ idx' >= idx
    /\ \A i \in Streams :
         (probes'[i] # probes[i] \/ delays'[i] # delays[i]) => (i = idx /\ i = idx')

\* C18: the streams are taken one at a time in input order: a stream is
\* parsed, probed or delayed only when every stream before it is done, a
\* stream that is done is never probed or delayed again, and the notifier
\* is invoked only when every stream is done, as the last step before the
\* return.
C18_SequentialInOrder == []InInputOrder /\ [][OnlyCurrentStream]_vars

C18_Witness ==
    /\ pc = "done"
    /\ Len(udp_urls) = 2
    /\ probes[1] = 2 /\ delays[1] = 1
    /\ probes[2] = 1 /\ delays[2] = 0 /\ active_at[2] = 1
    /\ Len(sent) = 1

\* the delays an attempts budget of n allows
MaxDelays(n) == IF n >= 1 THEN n - 1 ELSE 0

\* C19: a cycle makes at most retry_attempts probes and at most
\* retry_attempts - 1 delays per stream (none with no attempts), and, its
\* steps being taken, it returns.
C19_CycleTerminates ==
    /\ [](\A i \in Streams :
             /\ probes[i] <= retry_attempts
             /\ delays[i] <= MaxDelays(retry_attempts))
    /\ <>(pc = "done")

C19_Witness ==
    /\ pc = "done"
    /\ retry_attempts = 2
    /\ Len(udp_urls) = 2
    /\ probes[1] = 2 /\ delays[1] = 1
    /\ probes[2] = 2 /\ delays[2] = 1

\* C20: a udp_streams value with no stream in it ends the process at
\* startup: main is never entered, no run is started, no alert is sent.
C20_BlankValueExits ==
    (~config.streams.none /\ strip(config.streams.v) = <<>>) =>
        /\ main_pc \in {"load", "exited"}
        /\ launched = 0
        /\ sent = <<>>
        /\ prev_sent = <<>>

====
